---- MODULE Spec2Model ----
(***************************************************************************)
(* Task lifecycle engine of the orchestrator: the task queue               *)
(* (core/task_queue.py), the worker loop (core/worker.py), the agent       *)
(* process supervisor (core/claude_runner.py) and the cancel route         *)
(* (api/routes.py).                                                        *)
(*                                                                         *)
(* Spec         one worker loop and the API (enqueue, cancel route), each   *)
(*              queue operator being one session.                          *)
(* SpecShutdown the worker loop, enqueue and the shutdown path             *)
(*              (Worker.stop, cancellation of the worker coroutine).       *)
(* SpecDequeue several callers of dequeue, the SELECT and the flush of the *)
(*             ORM update being separate steps (the store is SQLite, where *)
(*             FOR UPDATE SKIP LOCKED is not rendered).                    *)
(* SpecCancel   the worker, enqueue and the cancel route with its answers.   *)
(* SpecDelay    the retry delay computed on its own.                         *)
(* SpecTimestamps the worker and enqueue in two steps, the clock advancing   *)
(*              between any two steps.                                       *)
(* SpecProcess  the worker with the result processor, its deliveries and the *)
(*              outcomes of the upload and mail CLIs.                        *)
(* SpecErrors   the worker with queue operations that raise, and stop().     *)
(* SpecSubmit   POST /tasks with the validation of the request body.         *)
(* SpecSessions the worker, each queue operator opening and closing its      *)
(*              session.                                                     *)
(* SpecLive     the worker that keeps running, with fairness on its steps    *)
(*              and on the clock.                                            *)
(***************************************************************************)
EXTENDS Integers, Sequences, FiniteSets, TLC

\* ---------------------------------------------------------------- bounds
MaxTasks == 2
NCallers == 2
\* dequeue calls that return a task, cancel calls that return True, in one behaviour
MaxDequeues == 2
MaxCancels == 1
\* arguments of the retry delay computed on its own: attempt, base delay, maximum delay
MaxAttemptArg == 4
MaxBaseArg == 6
MaxDelayArg == 40
\* the last instant of the clock where it advances between any two steps
MaxClock == 3
\* the limits passed to get_task_logs, beside the default
MaxLimit == 2
\* the attachments of one submission
MaxAttachments == 2

\* ------------------------------------------------------- program settings
\* Settings.max_task_attempts, Settings.retry_base_delay_seconds and
\* Settings.retry_max_delay_seconds, settable from the environment: the values of the run
max_task_attempts == 2
retry_base_delay_seconds == 3
retry_max_delay_seconds == 8

\* None of a nullable DateTime column / of Optional[str] task id
NoTime == -1
NoTask == 0

\* Settings.research_timeout_minutes, analysis_timeout_minutes, document_timeout_minutes
research_timeout_minutes == 30
analysis_timeout_minutes == 20
document_timeout_minutes == 15

\* Settings.get_task_timeout: the timeout of a task type in seconds
get_task_timeout(task_type) ==
    CASE task_type = "research" -> research_timeout_minutes * 60
      [] task_type = "analysis" -> analysis_timeout_minutes * 60
      [] OTHER -> document_timeout_minutes * 60

NoError == "None"
ErrCancelledByUser == "Cancelled by user"
\* f"Execution timed out after {timeout} seconds"
ErrTimedOut(timeout) == "Execution timed out after " \o ToString(timeout) \o " seconds"
ErrExecutionCancelled == "Execution cancelled"
ErrCliNotFound == "Claude CLI not found. Is it installed?"
ErrExited == "Claude exited with code"
ErrException == "exception"

VARIABLES
    tasks,              \* table tasks: row i is the task with id i
    task_logs,          \* table task_logs: the rows of each task_id, in insertion order
    now,                \* datetime.utcnow()
    running,            \* Worker._running
    shutdown_event,     \* Worker._shutdown_event
    current_task_id,    \* Worker._current_task_id
    pc,                 \* the await the worker coroutine is suspended at
    result,             \* the ClaudeResult of the current run
    child,              \* the child process of the current run
    active_processes,   \* ClaudeRunner._active_processes (its keys)
    cancel_sent,        \* lifespan called worker_task.cancel()
    callers,            \* SpecDequeue: the sessions of the concurrent dequeue calls
    deliveries,         \* history: how often dequeue returned each task
    terminal_committed, \* history: tasks once committed COMPLETED, FAILED or DEAD
    cancelled_running,  \* history: tasks for which cancel returned True during their run
    stop_signalled,     \* history: tasks whose live child stop() signalled
    calls               \* history: the dequeue and cancel calls counted by the bounds,
                        \* the last answer of the cancel route, and the last call of
                        \* the retry delay on its own

vars == <<tasks, task_logs, now, running, shutdown_event, current_task_id, pc, result,
          child, active_processes, cancel_sent, callers, deliveries,
          terminal_committed, cancelled_running, stop_signalled, calls>>

TaskStatus == {"PENDING", "QUEUED", "RUNNING", "PROCESSING", "COMPLETED", "FAILED",
               "RETRY", "DEAD"}
Terminal == {"COMPLETED", "FAILED", "DEAD"}
TaskIds == 1..MaxTasks

\* ------------------------------------------------------------ task queue
RECURSIVE Pow2(_)
Pow2(n) == IF n = 0 THEN 1 ELSE 2 * Pow2(n - 1)

Min(a, b) == IF a < b THEN a ELSE b

\* a jitter drawn from the delay before it is capped
RetryDelayJitterUncapped(base, max_delay, attempt) ==
    LET delay == Min(base * Pow2(attempt), max_delay)
    IN  {delay + j : j \in 0..((base * Pow2(attempt)) \div 10)}

\* _calculate_retry_delay for the settings (base, max_delay):
\* int(delay + uniform(0, delay * 0.1)), every value it can return
RetryDelayWith(base, max_delay, attempt) ==
    LET delay == Min(base * Pow2(attempt), max_delay)
    IN  {delay + j : j \in 0..(delay \div 10)}

\* the delay of the attempt before
calculate_retry_delay_previous(attempt) ==
    RetryDelayWith(retry_base_delay_seconds, retry_max_delay_seconds, attempt - 1)

\* _calculate_retry_delay with the settings of the run
calculate_retry_delay(attempt) ==
    RetryDelayWith(retry_base_delay_seconds, retry_max_delay_seconds, attempt)

\* get_task_logs(task_id, limit: int = 100)
DefaultLogLimit == 100

\* a _log_event that overwrites the newest entry of the task
LogEventOverwrite(logs, task_id, level, event) ==
    [logs EXCEPT ![task_id] =
        IF @ = <<>>
        THEN <<[task_id |-> task_id, level |-> level, event |-> event,
                correlation_id |-> "None"]>>
        ELSE [@ EXCEPT ![Len(@)] = [task_id |-> task_id, level |-> level,
                                    event |-> event, correlation_id |-> "None"]]]

\* _log_event, "correlation_id: Optional[str] = None"
NoCorrelation == "None"

\* get_correlation_id: str(uuid.uuid4()), a fresh value for each POST /tasks
get_correlation_id(id) == "correlation-" \o ToString(id)

\* _log_event called with correlation_id=...: session.add(TaskLog(...))
LogEventCorrelated(logs, task_id, level, event, correlation_id) ==
    [logs EXCEPT ![task_id] =
        Append(@, [task_id |-> task_id, level |-> level, event |-> event,
                   correlation_id |-> correlation_id])]

\* _log_event called without correlation_id: session.add(TaskLog(...))
LogEvent(logs, task_id, level, event) ==
    LogEventCorrelated(logs, task_id, level, event, NoCorrelation)

\* Task.created_at, "default=datetime.utcnow": the column default is evaluated when the
\* row is inserted
InsertDefaults(t, at) == [t EXCEPT !.created_at = at]

\* TaskType, and the type of the n-th submission: the submissions of a behaviour go
\* through the three types in turn
TaskTypes == <<"research", "analysis", "document">>
SubmittedType(id) == TaskTypes[((id - 1) % Len(TaskTypes)) + 1]

\* "self.settings.outputs_path / task_id"
OutputsPath(id) == <<"outputs", id>>

\* a row created with started_at already set
NewTaskStarted(id, task_type, at) ==
    [id |-> id, type |-> task_type, outputs_path |-> OutputsPath(id),
     correlation_id |-> get_correlation_id(id),
     status |-> "QUEUED", attempts |-> 0, max_attempts |-> max_task_attempts,
     last_error |-> NoError, next_retry_at |-> NoTime, created_at |-> at,
     queued_at |-> at, started_at |-> at, completed_at |-> NoTime]

\* a row left with the column default of status
NewTaskPending(id, task_type, at) ==
    [id |-> id, type |-> task_type, outputs_path |-> OutputsPath(id),
     correlation_id |-> get_correlation_id(id),
     status |-> "PENDING", attempts |-> 0, max_attempts |-> max_task_attempts,
     last_error |-> NoError, next_retry_at |-> NoTime, created_at |-> at,
     queued_at |-> at, started_at |-> NoTime, completed_at |-> NoTime]

\* enqueue: Task(...) with a fresh id, created_at by the column default
NewTask(id, task_type, at) ==
    [id |-> id, type |-> task_type, outputs_path |-> OutputsPath(id),
     correlation_id |-> get_correlation_id(id),
     status |-> "QUEUED", attempts |-> 0, max_attempts |-> max_task_attempts,
     last_error |-> NoError, next_retry_at |-> NoTime, created_at |-> at,
     queued_at |-> at, started_at |-> NoTime, completed_at |-> NoTime]

\* get_task_logs: the entries of the task, "order_by(TaskLog.timestamp.desc())" and
\* "limit(limit)". The entries of a task are kept in insert order, which is the order of
\* TaskLog.id (autoincrement) and of the timestamps; id is the rank of the entry
GetTaskLogs(logs, task_id, limit) ==
    LET n == Len(logs[task_id])
        m == Min(n, limit)
    IN  [k \in 1..m |-> [id |-> n - k + 1, entry |-> logs[task_id][n - k + 1]]]

\* get_task: the row with that id, if any
GetTask(ts, id) == IF id \in DOMAIN ts THEN {ts[id]} ELSE {}

\* a WHERE clause that never selects a row waiting for its retry
EligibleOnlyQueued(t, at) == t.status = "QUEUED"

\* a WHERE clause without the next_retry_at condition
EligibleAnyRetry(t, at) == t.status \in {"QUEUED", "RETRY"}

\* the WHERE clause of dequeue's SELECT
Eligible(t, at) ==
    \/ t.status = "QUEUED"
    \/ t.status = "RETRY" /\ t.next_retry_at # NoTime /\ t.next_retry_at <= at

\* ORDER BY created_at LIMIT 1: the rows the SELECT may return (ties are the store's choice)
SelectCandidates(ts, at) ==
    {i \in DOMAIN ts : /\ Eligible(ts[i], at)
                       /\ \A j \in DOMAIN ts :
                            Eligible(ts[j], at) => ts[i].created_at <= ts[j].created_at}

\* a dequeue that gives every attempt an output directory of its own
DequeueUpdateFreshOutputs(ts, id, loaded_attempts, at) ==
    [ts EXCEPT ![id].status = "RUNNING", ![id].started_at = at,
               ![id].attempts = loaded_attempts + 1,
               ![id].outputs_path = <<"outputs", id, loaded_attempts + 1>>]

\* an update to RUNNING that leaves started_at alone
DequeueUpdateNoStartedAt(ts, id, loaded_attempts, at) ==
    [ts EXCEPT ![id].status = "RUNNING", ![id].attempts = loaded_attempts + 1]

\* dequeue's update of the selected row; attempts is the value the session loaded
DequeueUpdate(ts, id, loaded_attempts, at) ==
    [ts EXCEPT ![id].status = "RUNNING", ![id].started_at = at,
               ![id].attempts = loaded_attempts + 1]

MarkProcessingUpdate(ts, id) == [ts EXCEPT ![id].status = "PROCESSING"]

MarkCompletedUpdate(ts, id, at) ==
    [ts EXCEPT ![id].status = "COMPLETED", ![id].completed_at = at]

\* a retry granted also at attempts = max_attempts
RetryAllowedLe(t, retry) == retry /\ t.attempts <= t.max_attempts
\* mark_failed: "if retry and task.attempts < task.max_attempts"
RetryAllowed(t, retry) == retry /\ t.attempts < t.max_attempts

\* the two final statuses exchanged
FinalStatusSwapped(retry) == IF retry THEN "FAILED" ELSE "DEAD"
\* mark_failed: "TaskStatus.DEAD if retry else TaskStatus.FAILED"
FinalStatus(retry) == IF retry THEN "DEAD" ELSE "FAILED"

\* a mark_failed that starts the count of attempts again when it schedules a retry
MarkFailedUpdateResetsAttempts(ts, id, error, retry, at, delay) ==
    IF retry /\ ts[id].attempts < ts[id].max_attempts
    THEN [ts EXCEPT ![id].status = "RETRY", ![id].last_error = error,
                    ![id].next_retry_at = at + delay, ![id].attempts = 0]
    ELSE [ts EXCEPT ![id].status = IF retry THEN "DEAD" ELSE "FAILED",
                    ![id].last_error = error, ![id].completed_at = at]

\* a mark_failed that records the error and leaves the status as it is
MarkFailedUpdateKeepsStatus(ts, id, error, retry, at, delay) ==
    [ts EXCEPT ![id].last_error = error]
\* mark_failed: the update of the row
MarkFailedUpdate(ts, id, error, retry, at, delay) ==
    IF RetryAllowed(ts[id], retry)
    THEN [ts EXCEPT ![id].status = "RETRY", ![id].last_error = error,
                    ![id].next_retry_at = at + delay]
    ELSE [ts EXCEPT ![id].status = FinalStatus(retry), ![id].last_error = error,
                    ![id].completed_at = at]

\* a mark_failed that adds no log entry
MarkFailedLogNothing(logs, t, id, retry) == logs

\* mark_failed: the _log_event of each branch
MarkFailedLog(logs, t, id, retry) ==
    IF RetryAllowed(t, retry)
    THEN LogEvent(logs, id, "warning", "task_retry_scheduled")
    ELSE LogEvent(logs, id, "error", IF retry THEN "task_dead" ELSE "task_failed")

\* a cancel that refuses only completed rows
CancelRefusedOnlyCompleted(t) == t.status = "COMPLETED"

\* cancel: the rows it refuses
CancelRefused(t) == t.status \in {"COMPLETED", "DEAD", "FAILED"}

\* a cancel that does not stamp completed_at
CancelUpdateNoCompletedAt(ts, id, at) ==
    [ts EXCEPT ![id].status = "FAILED", ![id].last_error = ErrCancelledByUser]

\* cancel: the update of the row
CancelUpdate(ts, id, at) ==
    [ts EXCEPT ![id].status = "FAILED", ![id].last_error = ErrCancelledByUser,
               ![id].completed_at = at]


TerminalNow(ts) == {i \in DOMAIN ts : ts[i].status \in Terminal}

\* ---------------------------------------------------------- agent runner
NoResult == [success |-> FALSE, partial |-> FALSE, error |-> NoError]
NoChild == [state |-> "none", task |-> NoTask, rc |-> 0]

\* a cancel_task that sends no signal
CancelTaskChildNoSignal(ch, registry, id) == ch

\* a cancel_task that signals the child whatever task it is asked about
CancelTaskChildAnyTask(ch, registry, id) ==
    IF ch.state = "alive"
    THEN [ch EXCEPT !.state = "exited", !.rc = -15]
    ELSE ch

\* cancel_task: SIGTERM to the registered process, wait 5 s, kill; a process that has
\* already exited raises ProcessLookupError and is left as it is
CancelTaskChild(ch, registry, id) ==
    IF id \in registry /\ ch.task = id /\ ch.state = "alive"
    THEN [ch EXCEPT !.state = "exited", !.rc = -15]
    ELSE ch

\* cancel_task: "finally: self._active_processes.pop(task_id, None)"
CancelTaskRegistry(registry, id) == registry \ {id}

\* a _run_claude without its finally clause
RunClaudeFinallyKeeps(registry, id) == registry

\* _run_claude: "finally: self._active_processes.pop(task_id, None)"
RunClaudeFinally(registry, id) == registry \ {id}

\* _run_claude: the ClaudeResult for an exit code
ResultOfExit(rc) ==
    IF rc = 0
    THEN [success |-> TRUE, partial |-> FALSE, error |-> NoError]
    ELSE [success |-> FALSE, partial |-> FALSE, error |-> ErrExited]

\* ---------------------------------------------------------------- worker
\* a worker that asks for a retry whatever the result
RetryFlagAlways(r) == TRUE
\* Worker.start: "retry=not result.partial"
RetryFlag(r) == ~r.partial

\* an exception handler that asks for no retry
ExceptRetryNever == FALSE
\* Worker.start, the inner "except Exception": mark_failed(..., retry=True)
ExceptRetry == TRUE

\* no call of the retry delay on its own yet
NoDelayCall == [attempt |-> 0, base |-> 0, max_delay |-> 0, delay |-> 0]

\* no answer of the cancel route yet
NoResponse == [id |-> NoTask, cancelled |-> FALSE]

\* the store session of the worker: none open
NoSession == [open |-> FALSE, op |-> "none"]

\* a session that stays open after the commit
SessionLeftOpen(session) == session

\* "async with await get_session() as session": the block ends after session.commit()
\* and the session is closed before the queue operation returns
SessionClosed(session) == [session EXCEPT !.open = FALSE]

\* ------------------------------------------------------------ submission
\* Field(..., max_length=200) of TaskCreate.title
title_max_length == 200

\* ALLOWED_ATTACHMENT_TYPES
ALLOWED_ATTACHMENT_TYPES ==
    {"pdf", "docx", "doc", "txt", "md", "csv", "json", "png", "jpg", "jpeg", "gif"}

\* a string, as the lengths of its leading whitespace, of its core (which starts and ends
\* with a character that is not whitespace, or is empty) and of its trailing whitespace
Len3(v) == v.lead + v.core + v.trail

\* str.strip
Strip(v) == [lead |-> 0, core |-> v.core, trail |-> 0]

\* the titles and descriptions submitted
Titles ==
    [lead : {0, 1}, trail : {0, 1},
     core : {0, 1, title_max_length - 1, title_max_length, title_max_length + 1}]
Descriptions == [lead : {0, 1}, trail : {0}, core : {0, 1}]

\* an attachment path, as its pieces between the dots
Paths == {<<"report", "pdf">>, <<"scan", "PDF">>, <<"notes">>, <<"run", "exe">>,
          <<"archive", "tar", "gz">>}

\* str.lower on the pieces that occur
Lower(x) == IF x = "PDF" THEN "pdf" ELSE x

\* validate_attachments: attachment.rsplit(".", 1)[-1].lower() if "." in attachment else ""
ExtensionOf(path) == IF Len(path) > 1 THEN Lower(path[Len(path)]) ELSE ""

\* attachments: None, or a list of paths
NoAttachments == [given |-> FALSE, paths |-> <<>>]
AttachmentLists ==
    {NoAttachments} \cup
    {[given |-> TRUE, paths |-> l] : l \in UNION {[1..n -> Paths] : n \in 0..MaxAttachments}}

\* the request bodies of POST /tasks
Submissions ==
    [type : {"research", "analysis", "document", "summary"}, title : Titles,
     description : Descriptions, attachments : AttachmentLists]

\* a validator that rejects only the empty string
NotEmptyRaw(v) == Len3(v) # 0

\* title_not_empty, description_not_empty: "if not v or not v.strip(): raise ValueError"
NotEmpty(v) == Len3(v) # 0 /\ Len3(Strip(v)) # 0

\* TaskCreate: the enum of type, max_length of title (checked on the string as sent,
\* before the validator strips it), the validators of title, description and attachments
ValidSubmission(sub) ==
    /\ \E k \in DOMAIN TaskTypes : TaskTypes[k] = sub.type
    /\ Len3(sub.title) <= title_max_length
    /\ NotEmpty(sub.title)
    /\ NotEmpty(sub.description)
    /\ ~sub.attachments.given
          \/ \A k \in DOMAIN sub.attachments.paths :
                ExtensionOf(sub.attachments.paths[k]) \in ALLOWED_ATTACHMENT_TYPES

NoSubmit ==
    [input |-> [type |-> "research", title |-> [lead |-> 0, trail |-> 0, core |-> 1],
                description |-> [lead |-> 0, trail |-> 0, core |-> 1],
                attachments |-> NoAttachments],
     accepted |-> FALSE, answered |-> TRUE]

\* ------------------------------------------------------- result processor
\* task.delivery: absent, or a storage choice and an email address or none
NoDelivery == [set |-> FALSE, storage |-> "none", email |-> FALSE]
Deliveries ==
    {NoDelivery} \cup
    [set : {TRUE}, storage : {"none", "google_drive", "onedrive", "both"}, email : BOOLEAN]

\* what gdcli, onedrive or gmcli does: exits 0, exits nonzero, is not installed
\* (FileNotFoundError), or the call fails with another exception
CliOutcomes == {"ok", "nonzero", "missing", "error"}

\* the outcomes to consider for a CLI: all of them when the processor calls it
OutcomesIf(called) == IF called THEN CliOutcomes ELSE {"ok"}

\* a helper that lets FileNotFoundError escape
CliCallMissingEscapes(outcome) == [success |-> outcome = "ok", raised |-> outcome = "missing"]

\* _upload_to_gdrive, _upload_to_onedrive, _send_email: the whole body is in a try whose
\* handlers turn FileNotFoundError and every other Exception into a failure result
CliCall(outcome) == [success |-> outcome = "ok", raised |-> FALSE]

\* ResultProcessor.process: _extract_summary (outside any try), the uploads chosen by
\* delivery.storage, then the email when delivery.email is set
ProcessorProcess(d, summary, gd, od, mail) ==
    LET summary_raised == summary = "raises"
        gd_called == ~summary_raised /\ d.set /\ d.storage \in {"google_drive", "both"}
        gd_raised == gd_called /\ CliCall(gd).raised
        od_called == ~summary_raised /\ ~gd_raised /\ d.set
                        /\ d.storage \in {"onedrive", "both"}
        od_raised == od_called /\ CliCall(od).raised
        mail_called == ~summary_raised /\ ~gd_raised /\ ~od_raised /\ d.set /\ d.email
        mail_raised == mail_called /\ CliCall(mail).raised
    IN  [raised |-> summary_raised \/ gd_raised \/ od_raised \/ mail_raised,
         summary_raised |-> summary_raised,
         cloud_links |-> {x \in {"google_drive"} : gd_called /\ CliCall(gd).success}
                            \cup {x \in {"onedrive"} : od_called /\ CliCall(od).success},
         upload_errors |-> {x \in {"google_drive"} : gd_called /\ ~CliCall(gd).success}
                              \cup {x \in {"onedrive"} : od_called /\ ~CliCall(od).success},
         email_called |-> mail_called,
         notification_sent |-> mail_called /\ CliCall(mail).success]

NoProcessing ==
    [task |-> NoTask, delivery |-> NoDelivery,
     result |-> [raised |-> FALSE, summary_raised |-> FALSE, cloud_links |-> {},
                 upload_errors |-> {}, email_called |-> FALSE,
                 notification_sent |-> FALSE]]

IdleCaller == [pc |-> "idle", task |-> NoTask, attempts |-> 0, at |-> 0]

Init ==
    /\ tasks = <<>>
    /\ task_logs = [i \in TaskIds |-> <<>>]
    /\ now = 0
    /\ running = TRUE
    /\ shutdown_event = FALSE
    /\ current_task_id = NoTask
    /\ pc = "poll"
    /\ result = NoResult
    /\ child = NoChild
    /\ active_processes = {}
    /\ cancel_sent = FALSE
    /\ callers = [c \in 1..NCallers |-> IdleCaller]
    /\ deliveries = [i \in TaskIds |-> 0]
    /\ terminal_committed = {}
    /\ cancelled_running = {}
    /\ stop_signalled = {}
    /\ calls = [dequeue |-> 0, cancel |-> 0, response |-> NoResponse,
                retry_delay |-> NoDelayCall, building |-> NoTime,
                processing |-> NoProcessing, submit |-> NoSubmit,
                session |-> NoSession]

workerVars == <<running, shutdown_event, current_task_id, pc, result, cancel_sent>>
runnerVars == <<child, active_processes>>
historyVars == <<deliveries, terminal_committed, cancelled_running, stop_signalled,
                 calls>>

\* a retry scheduled for later than now: dequeue's WHERE clause is waiting for the clock
RetryPending ==
    \E i \in DOMAIN tasks : tasks[i].status = "RETRY" /\ tasks[i].next_retry_at > now

\* the moment the next pending retry falls due
NextRetryDue ==
    CHOOSE d \in {tasks[i].next_retry_at : i \in {j \in DOMAIN tasks :
                      tasks[j].status = "RETRY" /\ tasks[j].next_retry_at > now}} :
        \A i \in DOMAIN tasks :
            (tasks[i].status = "RETRY" /\ tasks[i].next_retry_at > now)
                => d <= tasks[i].next_retry_at

\* datetime.utcnow() advances. Every other step is taken as instantaneous: the clock moves
\* while the worker sleeps in its poll wait and a retry is not yet due, up to the moment
\* the next retry falls due
Tick ==
    /\ pc = "wait" /\ RetryPending
    /\ now' = NextRetryDue
    /\ UNCHANGED <<tasks, task_logs, workerVars, runnerVars, callers, historyVars>>

\* TaskQueue.enqueue (POST /tasks)
Enqueue ==
    /\ Len(tasks) < MaxTasks
    /\ tasks' = Append(tasks, NewTask(Len(tasks) + 1, SubmittedType(Len(tasks) + 1), now))
    /\ task_logs' = LogEventCorrelated(task_logs, Len(tasks) + 1, "info", "task_queued",
                                      get_correlation_id(Len(tasks) + 1))
    /\ UNCHANGED <<now, workerVars, runnerVars, callers, historyVars>>

\* Worker.start, loop top: TaskQueue.dequeue in one session; c is the record of calls
\* with the session of this call closed, d the same with the returned task counted
DequeueStep(c, d) ==
    /\ pc = "poll" /\ running /\ ~shutdown_event
    /\ IF SelectCandidates(tasks, now) = {}
       THEN /\ pc' = "wait"
            /\ calls' = c
            /\ UNCHANGED <<tasks, task_logs, current_task_id, deliveries>>
       ELSE \E id \in SelectCandidates(tasks, now) :
            /\ tasks' = DequeueUpdate(tasks, id, tasks[id].attempts, now)
            /\ task_logs' = LogEventCorrelated(task_logs, id, "info", "task_started",
                                                tasks[id].correlation_id)
            /\ current_task_id' = id
            /\ deliveries' = [deliveries EXCEPT ![id] = @ + 1]
            /\ calls' = d
            /\ pc' = "spawn"
    /\ UNCHANGED <<now, running, shutdown_event, result, cancel_sent, runnerVars, callers,
                   terminal_committed, cancelled_running, stop_signalled>>

\* the dequeues of a behaviour that return a task are counted up to MaxDequeues
DequeueWith(c) ==
    /\ calls.dequeue < MaxDequeues
    /\ DequeueStep(c, [c EXCEPT !.dequeue = @ + 1])

Dequeue == DequeueWith(calls)

\* Worker.start: "while self._running" / "if self._shutdown_event.is_set(): break"
WorkerExit ==
    /\ pc = "poll" /\ (~running \/ shutdown_event)
    /\ pc' = "stopped"
    /\ UNCHANGED <<tasks, task_logs, now, running, shutdown_event, current_task_id, result,
                   cancel_sent, runnerVars, callers, historyVars>>

\* Worker.start: wait_for(shutdown_event.wait(), poll_interval) returns or times out
PollWait ==
    /\ pc = "wait"
    /\ pc' = "poll"
    /\ UNCHANGED <<tasks, task_logs, now, running, shutdown_event, current_task_id, result,
                   cancel_sent, runnerVars, callers, historyVars>>

\* _run_claude: create_subprocess_exec starts the child, raises FileNotFoundError, or
\* raises another exception
Spawn ==
    /\ pc = "spawn"
    /\ \/ /\ child' = [state |-> "alive", task |-> current_task_id, rc |-> 0]
          /\ active_processes' = active_processes \cup {current_task_id}
          /\ pc' = "communicate"
          /\ UNCHANGED result
       \/ /\ result' = [success |-> FALSE, partial |-> FALSE, error |-> ErrCliNotFound]
          /\ pc' = "result"
          /\ UNCHANGED runnerVars
       \/ /\ result' = [success |-> FALSE, partial |-> FALSE, error |-> ErrException]
          /\ pc' = "result"
          /\ UNCHANGED runnerVars
    /\ UNCHANGED <<tasks, task_logs, now, running, shutdown_event, current_task_id,
                   cancel_sent, callers, historyVars>>

\* the agent CLI exits on its own
ChildExit ==
    /\ child.state = "alive"
    /\ \E rc \in {0, 1} : child' = [child EXCEPT !.state = "exited", !.rc = rc]
    /\ UNCHANGED <<tasks, task_logs, now, workerVars, active_processes, callers,
                   historyVars>>

\* _run_claude: communicate() returns, "finally: self._active_processes.pop(task_id, None)"
Communicate ==
    /\ pc = "communicate" /\ child.state = "exited"
    /\ active_processes' = RunClaudeFinally(active_processes, current_task_id)
    /\ result' = ResultOfExit(child.rc)
    /\ child' = NoChild
    /\ pc' = "result"
    /\ UNCHANGED <<tasks, task_logs, now, running, shutdown_event, current_task_id,
                   cancel_sent, callers, historyVars>>

\* _run_claude: asyncio.TimeoutError, cancel_task, the partial result. The child that
\* cancel_task terminated is gone when _run_claude returns; one it did not signal runs on
Timeout ==
    /\ pc = "communicate" /\ child.state = "alive"
    /\ child' = IF CancelTaskChild(child, active_processes, current_task_id).state = "alive"
                THEN child
                ELSE NoChild
    /\ active_processes' =
         RunClaudeFinally(CancelTaskRegistry(active_processes, current_task_id),
                          current_task_id)
    /\ result' = [success |-> FALSE, partial |-> TRUE,
                  error |-> ErrTimedOut(get_task_timeout(tasks[current_task_id].type))]
    /\ pc' = "result"
    /\ UNCHANGED <<tasks, task_logs, now, running, shutdown_event, current_task_id,
                   cancel_sent, callers, historyVars>>

\* mark_failed as the worker calls it, then "finally: self._current_task_id = None"
WorkerMarkFailed(error, retry) ==
    /\ \E delay \in calculate_retry_delay(tasks[current_task_id].attempts) :
         tasks' = MarkFailedUpdate(tasks, current_task_id, error, retry, now, delay)
    /\ task_logs' = MarkFailedLog(task_logs, tasks[current_task_id], current_task_id, retry)
    /\ terminal_committed' = terminal_committed \cup TerminalNow(tasks')
    /\ current_task_id' = NoTask
    /\ result' = NoResult
    /\ pc' = "poll"

\* Worker.start: the branch on result.success, mark_processing or mark_failed in one
\* session
HandleResultWith(c) ==
    /\ pc = "result"
    /\ calls' = c
    /\ IF result.success
       THEN /\ tasks' = MarkProcessingUpdate(tasks, current_task_id)
            /\ task_logs' = LogEvent(task_logs, current_task_id, "info", "task_processing")
            /\ result' = NoResult
            /\ pc' = "process"
            /\ UNCHANGED <<current_task_id, terminal_committed>>
       ELSE WorkerMarkFailed(result.error, RetryFlag(result))
    /\ UNCHANGED <<now, running, shutdown_event, cancel_sent, runnerVars, callers,
                   deliveries, cancelled_running, stop_signalled>>

HandleResult == HandleResultWith(calls)

\* Worker.start: processor.process, then mark_completed in one session; or
\* "except Exception" and mark_failed
ProcessWith(c) ==
    /\ pc = "process"
    /\ calls' = c
    /\ \/ /\ tasks' = MarkCompletedUpdate(tasks, current_task_id, now)
          /\ task_logs' = LogEvent(task_logs, current_task_id, "info", "task_completed")
          /\ terminal_committed' = terminal_committed \cup TerminalNow(tasks')
          /\ current_task_id' = NoTask
          /\ pc' = "poll"
          /\ UNCHANGED result
       \/ WorkerMarkFailed(ErrException, ExceptRetry)
    /\ UNCHANGED <<now, running, shutdown_event, cancel_sent, runnerVars, callers,
                   deliveries, cancelled_running, stop_signalled>>

Process == ProcessWith(calls)

\* ------------------------------------------------------------ cancel route
\* cancel_task route: get_task, queue.cancel, then runner.cancel_task if the task was
\* read RUNNING; a refused cancel (409) changes nothing
\* the cancel route past its checks: TaskQueue.cancel, then runner.cancel_task when the
\* task was RUNNING
CancelAccepted(id) ==
    /\ tasks' = CancelUpdate(tasks, id, now)
    /\ task_logs' = LogEvent(task_logs, id, "info", "task_cancelled")
    /\ terminal_committed' = terminal_committed \cup {id}
    /\ cancelled_running' =
         IF current_task_id = id /\ tasks[id].status \in {"RUNNING", "PROCESSING"}
         THEN cancelled_running \cup {id}
         ELSE cancelled_running
    /\ IF tasks[id].status = "RUNNING"
       THEN /\ child' = CancelTaskChild(child, active_processes, id)
            /\ active_processes' = CancelTaskRegistry(active_processes, id)
       ELSE UNCHANGED runnerVars
    /\ UNCHANGED <<now, workerVars, callers, deliveries, stop_signalled>>

\* the cancel route on a task it accepts
ApiCancel ==
    \E id \in DOMAIN tasks :
        /\ calls.cancel < MaxCancels
        /\ ~CancelRefused(tasks[id])
        /\ calls' = [calls EXCEPT !.cancel = @ + 1]
        /\ CancelAccepted(id)

\* the cancel route with its answer: 409 for a task in a terminal status, where
\* TaskQueue.cancel returns False, and 204 after TaskQueue.cancel returned True
CancelRoute ==
    \E id \in DOMAIN tasks :
        IF CancelRefused(tasks[id])
        THEN /\ calls' = [calls EXCEPT !.response = [id |-> id, cancelled |-> FALSE]]
             /\ UNCHANGED <<tasks, task_logs, now, workerVars, runnerVars, callers,
                            deliveries, terminal_committed, cancelled_running,
                            stop_signalled>>
        ELSE /\ calls.cancel < MaxCancels
             /\ calls' = [calls EXCEPT !.cancel = @ + 1,
                                       !.response = [id |-> id, cancelled |-> TRUE]]
             /\ CancelAccepted(id)

\* ---------------------------------------------------------------- shutdown
\* Worker.stop
Stop ==
    /\ ~shutdown_event
    /\ running' = FALSE
    /\ shutdown_event' = TRUE
    /\ IF current_task_id # NoTask
       THEN /\ child' = CancelTaskChild(child, active_processes, current_task_id)
            /\ active_processes' = CancelTaskRegistry(active_processes, current_task_id)
            /\ stop_signalled' =
                 IF child' # child THEN stop_signalled \cup {current_task_id}
                                   ELSE stop_signalled
       ELSE UNCHANGED <<runnerVars, stop_signalled>>
    /\ UNCHANGED <<tasks, task_logs, now, current_task_id, pc, result, cancel_sent, callers,
                   deliveries, terminal_committed, cancelled_running, calls>>

\* lifespan: worker_task.cancel() after worker.stop(); CancelledError is raised at the await
\* the worker is suspended at: execute_task turns it into a partial result, anywhere else
\* it ends the coroutine through "finally: self._current_task_id = None"
WorkerTaskCancel ==
    /\ shutdown_event /\ ~cancel_sent /\ pc # "stopped"
    /\ cancel_sent' = TRUE
    /\ IF pc \in {"spawn", "communicate"}
       THEN /\ result' = [success |-> FALSE, partial |-> TRUE,
                          error |-> ErrExecutionCancelled]
            /\ active_processes' = RunClaudeFinally(active_processes, current_task_id)
            /\ pc' = "result"
            /\ UNCHANGED current_task_id
       ELSE /\ pc' = "stopped"
            /\ current_task_id' = NoTask
            /\ result' = NoResult
            /\ UNCHANGED active_processes
    /\ UNCHANGED <<tasks, task_logs, now, running, shutdown_event, child, callers,
                   historyVars>>

\* the worker loop, the runner and the child
WorkerStep ==
    \/ Dequeue
    \/ PollWait
    \/ Spawn
    \/ ChildExit
    \/ Communicate
    \/ Timeout
    \/ HandleResult
    \/ Process

\* the submissions followed in a behaviour in which the worker keeps running: two
\* tasks, each with all its attempts
MaxLiveTasks == Min(MaxTasks, 2)

\* Worker.start, loop top: TaskQueue.dequeue, as often as the loop comes round
DequeueLive == DequeueStep(calls, calls)

\* the worker loop, the runner and the child, with no limit on the dequeues
WorkerStepLive ==
    \/ DequeueLive
    \/ PollWait
    \/ Spawn
    \/ ChildExit
    \/ Communicate
    \/ Timeout
    \/ HandleResult
    \/ Process

\* TaskQueue.enqueue (POST /tasks), for the first MaxLiveTasks submissions
EnqueueLive ==
    /\ Len(tasks) < MaxLiveTasks
    /\ Enqueue

\* one worker that keeps running, and the API submitting
NextLive ==
    \/ Tick
    \/ EnqueueLive
    \/ WorkerStepLive

\* the worker coroutine is scheduled again whenever it can take a step (the event loop
\* resumes it after each await; a live child exits or wait_for's timeout fires), and
\* the clock reaches the moment a pending retry is due while the worker polls
SpecLive ==
    /\ Init
    /\ [][NextLive]_vars
    /\ WF_vars(WorkerStepLive)
    /\ SF_vars(Tick)

\* one worker, the API submitting and cancelling
Next ==
    \/ Tick
    \/ Enqueue
    \/ WorkerStep
    \/ ApiCancel

Spec == Init /\ [][Next]_vars

\* one worker, the API submitting, and the process shutting down
NextShutdown ==
    \/ Tick
    \/ Enqueue
    \/ WorkerStep
    \/ Stop
    \/ WorkerExit
    \/ WorkerTaskCancel

SpecShutdown == Init /\ [][NextShutdown]_vars

\* one worker, the API submitting, and the cancel route with its answers
NextCancel ==
    \/ Tick
    \/ Enqueue
    \/ WorkerStep
    \/ CancelRoute

SpecCancel == Init /\ [][NextCancel]_vars

\* ---------------------------------------------------- the retry delay on its own
\* _calculate_retry_delay(attempt) under settings (base, max_delay), with its result
DelayCall ==
    /\ \E attempt \in 0..MaxAttemptArg, base \in 1..MaxBaseArg, max_delay \in 1..MaxDelayArg :
         \E delay \in RetryDelayWith(base, max_delay, attempt) :
            calls' = [calls EXCEPT !.retry_delay =
                         [attempt |-> attempt, base |-> base, max_delay |-> max_delay,
                          delay |-> delay]]
    /\ UNCHANGED <<tasks, task_logs, now, workerVars, runnerVars, callers, deliveries,
                   terminal_committed, cancelled_running, stop_signalled>>

NextDelay == DelayCall

SpecDelay == Init /\ [][NextDelay]_vars

\* ------------------------------------------------ the sessions of the worker
\* the worker enters a queue operation, which opens its session: dequeue at the top of
\* the loop, mark_processing or mark_failed on a result, mark_completed or mark_failed
\* after the processing
SessionBegin ==
    /\ ~calls.session.open
    /\ \/ /\ pc = "poll" /\ running /\ ~shutdown_event /\ calls.dequeue < MaxDequeues
          /\ calls' = [calls EXCEPT !.session = [open |-> TRUE, op |-> "dequeue"]]
       \/ /\ pc = "result"
          /\ calls' = [calls EXCEPT !.session =
                          [open |-> TRUE,
                           op |-> IF result.success THEN "mark_processing"
                                                    ELSE "mark_failed"]]
       \/ /\ pc = "process"
          /\ calls' = [calls EXCEPT !.session = [open |-> TRUE, op |-> "mark_completed"]]
    /\ UNCHANGED <<tasks, task_logs, now, workerVars, runnerVars, callers, deliveries,
                   terminal_committed, cancelled_running, stop_signalled>>

\* the queue operation commits and returns with its session closed
SessionDequeue ==
    /\ calls.session.open
    /\ DequeueWith([calls EXCEPT !.session = SessionClosed(@)])

SessionHandleResult ==
    /\ calls.session.open
    /\ HandleResultWith([calls EXCEPT !.session = SessionClosed(@)])

SessionProcess ==
    /\ calls.session.open
    /\ ProcessWith([calls EXCEPT !.session = SessionClosed(@)])

\* one worker whose queue operations open and close their sessions, the API submitting
NextSessions ==
    \/ Tick
    \/ Enqueue
    \/ SessionBegin
    \/ SessionDequeue
    \/ PollWait
    \/ Spawn
    \/ ChildExit
    \/ Communicate
    \/ Timeout
    \/ SessionHandleResult
    \/ SessionProcess

SpecSessions == Init /\ [][NextSessions]_vars

\* ------------------------------------------------------- POST /tasks
\* create_task: the body is validated as a TaskCreate before the route runs; a valid one
\* is passed to TaskQueue.enqueue, an invalid one is answered with the validation error
Submit ==
    /\ calls.submit.answered
    /\ \E sub \in Submissions :
         IF ValidSubmission(sub)
         THEN /\ Len(tasks) < MaxTasks
              /\ tasks' = Append(tasks, NewTask(Len(tasks) + 1, sub.type, now))
              /\ task_logs' = LogEventCorrelated(task_logs, Len(tasks) + 1, "info", "task_queued",
                                      get_correlation_id(Len(tasks) + 1))
              /\ calls' = [calls EXCEPT !.submit =
                              [input |-> sub, accepted |-> TRUE, answered |-> FALSE]]
         ELSE /\ calls' = [calls EXCEPT !.submit =
                              [input |-> sub, accepted |-> FALSE, answered |-> FALSE]]
              /\ UNCHANGED <<tasks, task_logs>>
    /\ UNCHANGED <<now, workerVars, runnerVars, callers, deliveries, terminal_committed,
                   cancelled_running, stop_signalled>>

\* create_task: the response (201 with the task, or the validation error) is sent
SubmitAnswered ==
    /\ ~calls.submit.answered
    /\ calls' = [calls EXCEPT !.submit = NoSubmit]
    /\ UNCHANGED <<tasks, task_logs, now, workerVars, runnerVars, callers, deliveries,
                   terminal_committed, cancelled_running, stop_signalled>>

NextSubmit ==
    \/ Submit
    \/ SubmitAnswered

SpecSubmit == Init /\ [][NextSubmit]_vars

\* ------------------------------------------- exceptions of queue operations
\* a loop that gives up on an error
AfterLoopErrorStops == "stopped"

\* Worker.start, the outer "except Exception": logger.exception, then
\* asyncio.sleep(poll_interval), and the while loop goes round again
AfterLoopError == "poll"

\* Worker.start: queue.dequeue raises; the outer "except Exception" catches it
DequeueRaises ==
    /\ pc = "poll" /\ running /\ ~shutdown_event
    /\ pc' = "loop_error"
    /\ UNCHANGED <<tasks, task_logs, now, running, shutdown_event, current_task_id, result,
                   cancel_sent, runnerVars, callers, historyVars>>

\* Worker.start: mark_processing, mark_completed or mark_failed raises while the task is
\* handled, having committed nothing. The inner "except Exception" calls
\* mark_failed(str(e), retry=True), which commits, or raises in its turn: then
\* "finally: self._current_task_id = None" runs and the outer handler catches it
QueueOpRaises ==
    /\ pc \in {"result", "process"}
    /\ \/ WorkerMarkFailed(ErrException, ExceptRetry)
       \/ /\ current_task_id' = NoTask
          /\ result' = NoResult
          /\ pc' = "loop_error"
          /\ UNCHANGED <<tasks, task_logs, terminal_committed>>
    /\ UNCHANGED <<now, running, shutdown_event, cancel_sent, runnerVars, callers,
                   deliveries, cancelled_running, stop_signalled, calls>>

\* Worker.start: runner.execute_task raises before the child exists (the mkdir of the
\* outputs directory, the building of the prompt or of the command are outside its
\* try); the inner "except Exception" calls mark_failed(str(e), retry=True), which
\* commits, or raises in its turn
RunnerRaises ==
    /\ pc = "spawn"
    /\ \/ WorkerMarkFailed(ErrException, ExceptRetry)
       \/ /\ current_task_id' = NoTask
          /\ result' = NoResult
          /\ pc' = "loop_error"
          /\ UNCHANGED <<tasks, task_logs, terminal_committed>>
    /\ UNCHANGED <<now, running, shutdown_event, cancel_sent, runnerVars, callers,
                   deliveries, cancelled_running, stop_signalled, calls>>

\* Worker.start: the sleep of the outer handler ends
LoopErrorSleep ==
    /\ pc = "loop_error"
    /\ pc' = AfterLoopError
    /\ UNCHANGED <<tasks, task_logs, now, running, shutdown_event, current_task_id, result,
                   cancel_sent, runnerVars, callers, historyVars>>

\* one worker whose queue operations may raise, the API submitting, and stop()
NextErrors ==
    \/ Tick
    \/ Enqueue
    \/ WorkerStep
    \/ DequeueRaises
    \/ RunnerRaises
    \/ QueueOpRaises
    \/ LoopErrorSleep
    \/ Stop
    \/ WorkerExit

SpecErrors == Init /\ [][NextErrors]_vars

\* ---------------------------------------------- the processing of a result
\* Worker.start after mark_processing: processor.process on the task's delivery with the
\* outcomes of the three CLIs, then mark_completed, or "except Exception" and mark_failed
ProcessDelivery ==
    /\ pc = "process"
    /\ \E d \in Deliveries, summary \in {"ok", "raises"} :
        \E gd \in OutcomesIf(summary = "ok" /\ d.set /\ d.storage \in {"google_drive", "both"}),
           od \in OutcomesIf(summary = "ok" /\ d.set /\ d.storage \in {"onedrive", "both"}),
           mail \in OutcomesIf(summary = "ok" /\ d.set /\ d.email) :
         LET r == ProcessorProcess(d, summary, gd, od, mail)
         IN  /\ calls' = [calls EXCEPT !.processing =
                             [task |-> current_task_id, delivery |-> d, result |-> r]]
             /\ IF r.raised
                THEN WorkerMarkFailed(ErrException, ExceptRetry)
                ELSE /\ tasks' = MarkCompletedUpdate(tasks, current_task_id, now)
                     /\ task_logs' =
                           LogEvent(task_logs, current_task_id, "info", "task_completed")
                     /\ terminal_committed' = terminal_committed \cup TerminalNow(tasks')
                     /\ current_task_id' = NoTask
                     /\ pc' = "poll"
                     /\ UNCHANGED result
    /\ UNCHANGED <<now, running, shutdown_event, cancel_sent, runnerVars, callers,
                   deliveries, cancelled_running, stop_signalled>>

\* one worker and the API submitting, the result processor with its deliveries and CLIs
NextProcess ==
    \/ Tick
    \/ Enqueue
    \/ Dequeue
    \/ PollWait
    \/ Spawn
    \/ ChildExit
    \/ Communicate
    \/ Timeout
    \/ HandleResult
    \/ ProcessDelivery

SpecProcess == Init /\ [][NextProcess]_vars

\* ------------------------------------------- the clock between any two steps
\* datetime.utcnow() advances by one between any two steps
ClockTick ==
    /\ now < MaxClock
    /\ now' = now + 1
    /\ UNCHANGED <<tasks, task_logs, workerVars, runnerVars, callers, historyVars>>

\* TaskQueue.enqueue, first half: the Task object is built, queued_at=datetime.utcnow()
EnqueueBuild ==
    /\ Len(tasks) < MaxTasks
    /\ calls.building = NoTime
    /\ calls' = [calls EXCEPT !.building = now]
    /\ UNCHANGED <<tasks, task_logs, now, workerVars, runnerVars, callers, deliveries,
                   terminal_committed, cancelled_running, stop_signalled>>

\* TaskQueue.enqueue, second half: session.add, _log_event, commit. The INSERT evaluates
\* the column default of created_at
EnqueueInsert ==
    /\ calls.building # NoTime
    /\ tasks' = Append(tasks, InsertDefaults(NewTask(Len(tasks) + 1, SubmittedType(Len(tasks) + 1),
                                                    calls.building), now))
    /\ task_logs' = LogEventCorrelated(task_logs, Len(tasks) + 1, "info", "task_queued",
                                      get_correlation_id(Len(tasks) + 1))
    /\ calls' = [calls EXCEPT !.building = NoTime]
    /\ UNCHANGED <<now, workerVars, runnerVars, callers, deliveries,
                   terminal_committed, cancelled_running, stop_signalled>>

\* one worker and the API submitting, the clock free to advance between any two steps
NextTimestamps ==
    \/ ClockTick
    \/ EnqueueBuild
    \/ EnqueueInsert
    \/ WorkerStep

SpecTimestamps == Init /\ [][NextTimestamps]_vars

\* ------------------------------------------------- concurrent dequeue calls
\* dequeue, "result = await session.execute(stmt)": the SELECT of caller c. On SQLite
\* with_for_update(skip_locked=True) renders nothing, so the row stays visible to the
\* other sessions; the session keeps the row it loaded
CallerSelect(c) ==
    /\ callers[c].pc = "idle"
    /\ calls.dequeue < MaxDequeues
    /\ \E id \in SelectCandidates(tasks, now) :
         callers' = [callers EXCEPT ![c] = [pc |-> "selected", task |-> id,
                                            attempts |-> tasks[id].attempts, at |-> now]]
    /\ UNCHANGED <<tasks, task_logs, now, workerVars, runnerVars, historyVars>>

\* dequeue, "await session.commit()": the flush writes the attributes the session changed
CallerCommit(c) ==
    /\ callers[c].pc = "selected"
    /\ calls.dequeue < MaxDequeues
    /\ tasks' = DequeueUpdate(tasks, callers[c].task, callers[c].attempts, callers[c].at)
    /\ task_logs' = LogEventCorrelated(task_logs, callers[c].task, "info", "task_started",
                                      tasks[callers[c].task].correlation_id)
    /\ callers' = [callers EXCEPT ![c].pc = "holding"]
    /\ deliveries' = [deliveries EXCEPT ![callers[c].task] = @ + 1]
    /\ calls' = [calls EXCEPT !.dequeue = @ + 1]
    /\ UNCHANGED <<now, workerVars, runnerVars, terminal_committed, cancelled_running,
                   stop_signalled>>

\* the caller ends its run with mark_failed(retry=True)
CallerMarkFailed(c) ==
    /\ callers[c].pc = "holding"
    /\ \E delay \in calculate_retry_delay(tasks[callers[c].task].attempts) :
         tasks' = MarkFailedUpdate(tasks, callers[c].task, ErrExited, TRUE, now, delay)
    /\ task_logs' = MarkFailedLog(task_logs, tasks[callers[c].task], callers[c].task, TRUE)
    /\ terminal_committed' = terminal_committed \cup TerminalNow(tasks')
    /\ callers' = [callers EXCEPT ![c] = IdleCaller]
    /\ UNCHANGED <<now, workerVars, runnerVars, deliveries, cancelled_running,
                   stop_signalled, calls>>

\* the caller ends its run with mark_completed
CallerMarkCompleted(c) ==
    /\ callers[c].pc = "holding"
    /\ tasks' = MarkCompletedUpdate(tasks, callers[c].task, now)
    /\ task_logs' = LogEvent(task_logs, callers[c].task, "info", "task_completed")
    /\ terminal_committed' = terminal_committed \cup TerminalNow(tasks')
    /\ callers' = [callers EXCEPT ![c] = IdleCaller]
    /\ UNCHANGED <<now, workerVars, runnerVars, deliveries, cancelled_running,
                   stop_signalled, calls>>

\* datetime.utcnow() advances to the moment the next retry falls due
TickCallers ==
    /\ RetryPending
    /\ now' = NextRetryDue
    /\ UNCHANGED <<tasks, task_logs, workerVars, runnerVars, callers, historyVars>>

NextDequeue ==
    \/ TickCallers
    \/ Enqueue
    \/ \E c \in 1..NCallers : CallerSelect(c)
    \/ \E c \in 1..NCallers : CallerCommit(c)
    \/ \E c \in 1..NCallers : CallerMarkFailed(c)
    \/ \E c \in 1..NCallers : CallerMarkCompleted(c)

SpecDequeue == Init /\ [][NextDequeue]_vars

\* ------------------------------------------------------------------ claims
\* C1: under every interleaving of the worker with enqueue and cancel, a task's status
\* changes only along the edges of the operator table; in particular no step moves a task
\* out of COMPLETED, FAILED or DEAD.
C1_OnlyAllowedEdges ==
    [][LET AllowedEdges ==
               {<<"QUEUED", "RUNNING">>, <<"RETRY", "RUNNING">>,
                <<"RUNNING", "PROCESSING">>}
               \cup ({"RUNNING", "PROCESSING"} \X {"COMPLETED", "RETRY", "DEAD", "FAILED"})
               \cup ((TaskStatus \ Terminal) \X {"FAILED"})
       IN  \A i \in DOMAIN tasks :
               tasks'[i].status # tasks[i].status
                  => <<tasks[i].status, tasks'[i].status>> \in AllowedEdges]_vars

\* C2: once a task has been committed COMPLETED, FAILED or DEAD, no later dequeue
\* returns it.
C2_NoDequeueAfterTerminal ==
    [][\A i \in DOMAIN tasks :
          deliveries'[i] > deliveries[i] => i \notin terminal_committed]_vars

\* C3: if cancel returned True while the worker was executing the task, then once the
\* worker has finished handling it the record is still FAILED with last_error
\* "Cancelled by user".
C3_CancelSurvivesRun ==
    \A i \in cancelled_running :
        current_task_id # i =>
            /\ tasks[i].status = "FAILED"
            /\ tasks[i].last_error = ErrCancelledByUser

\* C4: when several callers run dequeue concurrently, no task is held by two callers at
\* once, and every return of a task incremented its attempts exactly once.
C4_DistinctDeliveries ==
    /\ \A c1, c2 \in 1..NCallers :
         (c1 # c2 /\ callers[c1].pc = "holding" /\ callers[c2].pc = "holding")
            => callers[c1].task # callers[c2].task
    /\ \A i \in DOMAIN tasks : tasks[i].attempts = deliveries[i]

C6_AttemptsBounded ==
    \A i \in DOMAIN tasks :
        /\ tasks[i].attempts <= tasks[i].max_attempts
        /\ tasks[i].status = "RETRY" => tasks[i].attempts < tasks[i].max_attempts

\* C6 witness: mark_failed(retry=True) has run on a task with attempts = max_attempts
C6_Witness ==
    \E i \in DOMAIN tasks :
        /\ tasks[i].attempts = tasks[i].max_attempts
        /\ tasks[i].status = "DEAD"

\* C7: a task whose every attempt ends in a retryable failure runs exactly max_attempts
\* times: after each of the first max_attempts - 1 failures it is in RETRY, after the
\* last one it is DEAD with completed_at set, attempts = max_attempts and a task_dead
\* log event.
C7_ExhaustionIsDead ==
    LET Events(i) == {task_logs[i][k].event : k \in 1..Len(task_logs[i])}
        Count(i, event) ==
            Cardinality({k \in 1..Len(task_logs[i]) : task_logs[i][k].event = event})
        OnlyRetryableFailures(i) ==
            Events(i) \subseteq {"task_queued", "task_started", "task_processing",
                                 "task_retry_scheduled", "task_dead"}
    IN  \A i \in DOMAIN tasks :
            (/\ OnlyRetryableFailures(i)
             /\ tasks[i].status \notin {"QUEUED", "RUNNING", "PROCESSING"}) =>
                IF Count(i, "task_started") < tasks[i].max_attempts
                THEN /\ tasks[i].status = "RETRY"
                     /\ Count(i, "task_dead") = 0
                ELSE /\ tasks[i].status = "DEAD"
                     /\ Count(i, "task_started") = tasks[i].max_attempts
                     /\ tasks[i].attempts = tasks[i].max_attempts
                     /\ tasks[i].completed_at # NoTime
                     /\ task_logs[i][Len(task_logs[i])].event = "task_dead"
                     /\ Count(i, "task_dead") = 1

\* C7 witness: a task whose log shows nothing but retryable failures has been declared DEAD
C7_Witness ==
    \E i \in DOMAIN tasks :
        /\ tasks[i].status = "DEAD"
        /\ {task_logs[i][k].event : k \in 1..Len(task_logs[i])} \subseteq
                {"task_queued", "task_started", "task_processing",
                 "task_retry_scheduled", "task_dead"}

\* C8: when the runner's result is partial (timeout or cancellation), the worker's
\* handling of it leaves the task FAILED with completed_at set and attempts unchanged,
\* never RETRY or DEAD, whatever attempts and max_attempts are.
C8_PartialIsFailed ==
    [][(pc = "result" /\ ~result.success /\ result.partial /\ pc' = "poll") =>
          /\ tasks'[current_task_id].status = "FAILED"
          /\ tasks'[current_task_id].completed_at # NoTime
          /\ tasks'[current_task_id].attempts = tasks[current_task_id].attempts]_vars

\* C8 witness: a partial result was handled on a task that had attempts left
C8_Witness ==
    \E i \in DOMAIN tasks :
        /\ tasks[i].status = "FAILED"
        /\ tasks[i].last_error \in {ErrTimedOut(get_task_timeout(tasks[i].type)),
                                    ErrExecutionCancelled}
        /\ tasks[i].attempts < tasks[i].max_attempts

\* C9: when the agent CLI binary is missing, the task is not retried: once the worker has
\* handled that result the task is FAILED, never RETRY.
C9_MissingBinaryIsFailed ==
    \A i \in DOMAIN tasks :
        tasks[i].last_error = ErrCliNotFound => tasks[i].status = "FAILED"

\* C10: when stop() is called while the current task's child is live, the task's eventual
\* status is FAILED, never RETRY or DEAD.
C10_StopNeverRetries ==
    \A i \in stop_signalled : tasks[i].status \notin {"RETRY", "DEAD"}

\* C11: for every task, next_retry_at is set if and only if its status is RETRY; dequeue
\* of a RETRY task and every later transition leave next_retry_at null.
C11_NextRetryAtIffRetry ==
    \A i \in DOMAIN tasks :
        (tasks[i].next_retry_at # NoTime) <=> (tasks[i].status = "RETRY")

\* C12: for every task, completed_at is set if and only if its status is COMPLETED,
\* FAILED or DEAD.
C12_CompletedAtIffTerminal ==
    \A i \in DOMAIN tasks :
        (tasks[i].completed_at # NoTime) <=> (tasks[i].status \in Terminal)

\* C13 as stated: for every task, started_at is set if and only if its status is RUNNING,
\* PROCESSING, COMPLETED, FAILED or DEAD.
C13_StartedAtIffStatus ==
    \A i \in DOMAIN tasks :
        (tasks[i].started_at # NoTime) <=>
            (tasks[i].status \in {"RUNNING", "PROCESSING", "COMPLETED", "FAILED", "DEAD"})

\* C13 amended: a QUEUED task has started_at null, and a task that is RUNNING,
\* PROCESSING, COMPLETED, RETRY or DEAD has started_at set; a FAILED task has it set
\* only if it was dequeued before it failed.
C13_StartedAtByStatus ==
    \A i \in DOMAIN tasks :
        /\ tasks[i].status = "QUEUED" => tasks[i].started_at = NoTime
        /\ tasks[i].status \in {"RUNNING", "PROCESSING", "COMPLETED", "RETRY", "DEAD"}
              => tasks[i].started_at # NoTime
        /\ tasks[i].status = "FAILED"
              => (tasks[i].started_at # NoTime <=> tasks[i].attempts > 0)

\* C13 witness: a RETRY task with started_at set beside a FAILED task that never started
C13_Witness ==
    \E i, j \in DOMAIN tasks :
        /\ tasks[i].status = "RETRY" /\ tasks[i].started_at # NoTime
        /\ tasks[j].status = "FAILED" /\ tasks[j].started_at = NoTime

\* C14: for every task, started_at is set if and only if dequeue has returned the task
\* at least once, that is, the task has been RUNNING at some point of its history.
C14_StartedAtIffEverRunning ==
    \A i \in DOMAIN tasks : (tasks[i].started_at # NoTime) <=> (deliveries[i] > 0)

\* C14 witness: a task that has been RUNNING and is no longer, beside one never dequeued
C14_Witness ==
    \E i, j \in DOMAIN tasks :
        /\ deliveries[i] > 0 /\ tasks[i].status \notin {"RUNNING", "PROCESSING"}
        /\ deliveries[j] = 0

\* C15: dequeue at time now returns nothing exactly when no task is QUEUED or RETRY with
\* next_retry_at <= now; otherwise it returns an eligible task with the earliest
\* created_at, so never a RETRY task whose next_retry_at is in the future, and a due
\* older RETRY task before any newer QUEUED task.
C15_DequeueEarliestEligible ==
    [][(pc = "poll" /\ pc' \in {"wait", "spawn"}) =>
          LET due == {i \in DOMAIN tasks :
                         \/ tasks[i].status = "QUEUED"
                         \/ /\ tasks[i].status = "RETRY"
                            /\ tasks[i].next_retry_at # NoTime
                            /\ tasks[i].next_retry_at <= now}
          IN  IF pc' = "wait"
              THEN due = {} /\ current_task_id' = NoTask
              ELSE /\ current_task_id' \in due
                   /\ tasks'[current_task_id'].status = "RUNNING"
                   /\ \A j \in due :
                         tasks[current_task_id'].created_at <= tasks[j].created_at]_vars

\* C15 witness: a due RETRY task was returned while a newer QUEUED task was waiting
C15_Witness ==
    \E i, j \in DOMAIN tasks :
        /\ tasks[i].status = "RUNNING" /\ tasks[i].attempts = 2 /\ current_task_id = i
        /\ tasks[j].status = "QUEUED"
        /\ tasks[i].created_at < tasks[j].created_at

\* C16: cancel of a task whose status is COMPLETED, FAILED or DEAD returns false (the
\* route answers with a conflict), appends no log entry and leaves every field of
\* every task unchanged.
C16_CancelTerminalIsNoOp ==
    [][(calls' # calls /\ calls'.dequeue = calls.dequeue) =>
          LET id == calls'.response.id
          IN  tasks[id].status \in {"COMPLETED", "FAILED", "DEAD"} =>
                 /\ ~calls'.response.cancelled
                 /\ calls'.cancel = calls.cancel
                 /\ tasks' = tasks
                 /\ task_logs' = task_logs]_vars

\* C16 witness: the route has answered a cancel of a terminal task with a conflict
C16_Witness ==
    \E id \in DOMAIN tasks :
        /\ calls.response = [id |-> id, cancelled |-> FALSE]
        /\ tasks[id].status \in Terminal

C18_RetryDelayWithinJitter ==
    LET c == calls.retry_delay
        m == IF c.base * 2^c.attempt < c.max_delay
             THEN c.base * 2^c.attempt ELSE c.max_delay
    IN  c # NoDelayCall =>
           /\ m <= c.delay
           /\ 10 * c.delay <= 11 * m
           /\ 10 * c.delay <= 11 * c.max_delay

\* C18 witness: a capped delay that came out with jitter above the cap
C18_Witness ==
    /\ calls.retry_delay.base * 2^calls.retry_delay.attempt > calls.retry_delay.max_delay
    /\ calls.retry_delay.delay > calls.retry_delay.max_delay

\* C19 as stated: after the first attempt of a task fails retryably the task is in RETRY
\* with attempts = 1 and next_retry_at - now within [base, 1.1 * base], base being the
\* configured base delay (1 second in the scenario).
C19_FirstRetryAfterBaseDelay ==
    [][\A i \in DOMAIN tasks :
          (/\ tasks[i].status \in {"RUNNING", "PROCESSING"}
           /\ tasks[i].attempts = 1
           /\ tasks'[i].status = "RETRY") =>
              /\ tasks'[i].attempts = 1
              /\ 10 * retry_base_delay_seconds <= 10 * (tasks'[i].next_retry_at - now)
              /\ 10 * (tasks'[i].next_retry_at - now) <= 11 * retry_base_delay_seconds]_vars

\* C19 amended: after the first attempt of a task fails retryably the task is in RETRY
\* with attempts = 1 and next_retry_at - now within [m, 1.1 * m], where
\* m = min(2 * base, max_delay): the delay is computed from the attempt count 1, not 0
\* (2 to 2.2 seconds in the scenario).
C19_FirstRetryAfterTwiceBaseDelay ==
    [][\A i \in DOMAIN tasks :
          (/\ tasks[i].status \in {"RUNNING", "PROCESSING"}
           /\ tasks[i].attempts = 1
           /\ tasks'[i].status = "RETRY") =>
              LET m == IF 2 * retry_base_delay_seconds < retry_max_delay_seconds
                       THEN 2 * retry_base_delay_seconds ELSE retry_max_delay_seconds
              IN  /\ tasks'[i].attempts = 1
                  /\ 10 * m <= 10 * (tasks'[i].next_retry_at - now)
                  /\ 10 * (tasks'[i].next_retry_at - now) <= 11 * m]_vars

\* C19 witness: a task in RETRY after the failure of its first attempt
C19_Witness ==
    \E i \in DOMAIN tasks :
        /\ tasks[i].status = "RETRY" /\ tasks[i].attempts = 1
        /\ tasks[i].next_retry_at > now
        /\ i \notin terminal_committed

\* C20: enqueue creates exactly one new task, with an id no existing task has, status
\* QUEUED, attempts 0, max_attempts the configured value, queued_at = now and
\* outputs_path = outputs root / id, and appends one task_queued log entry; get(id)
\* right after returns that record, and no existing task is modified.
C20_EnqueueCreatesQueuedTask ==
    [][Len(tasks') # Len(tasks) =>
          /\ Len(tasks') = Len(tasks) + 1
          /\ \A j \in DOMAIN tasks : tasks'[j] = tasks[j] /\ task_logs'[j] = task_logs[j]
          /\ LET new == tasks'[Len(tasks')]
             IN  /\ \A j \in DOMAIN tasks : tasks[j].id # new.id
                 /\ new.status = "QUEUED"
                 /\ new.attempts = 0
                 /\ new.max_attempts = max_task_attempts
                 /\ new.queued_at = now
                 /\ new.outputs_path = <<"outputs", new.id>>
                 /\ task_logs'[new.id] =
                       <<[task_id |-> new.id, level |-> "info", event |-> "task_queued",
                          correlation_id |-> new.correlation_id]>>
                 /\ GetTask(tasks', new.id) = {new}]_vars

\* C20 witness: a task has been enqueued beside an older task the worker has dequeued
C20_Witness ==
    /\ Len(tasks) = 2
    /\ tasks[1].attempts > 0
    /\ tasks[2].status = "QUEUED" /\ tasks[2].attempts = 0

\* the events logged for a task, in order
EventsOf(i) == [k \in 1..Len(task_logs[i]) |-> task_logs[i][k].event]

\* C21: a task that went through enqueue, dequeue and mark_completed has status
\* COMPLETED, attempts = 1 and completed_at >= started_at >= queued_at >= created_at,
\* the clock being free to advance between any two steps, also between the computation
\* of queued_at and the insert that assigns created_at.
C21_TimestampsOrdered ==
    \A i \in DOMAIN tasks :
        EventsOf(i) = <<"task_queued", "task_started", "task_processing", "task_completed">>
            => /\ tasks[i].status = "COMPLETED"
               /\ tasks[i].attempts = 1
               /\ tasks[i].completed_at >= tasks[i].started_at
               /\ tasks[i].started_at >= tasks[i].queued_at
               /\ tasks[i].queued_at >= tasks[i].created_at

\* the entries a read returned
Returned(read) == {read[k] : k \in DOMAIN read}

\* C23 as stated: the task log is append-only: no operator updates or deletes an entry,
\* the ids of the entries are strictly increasing, and a later logs(id, limit) read
\* contains every entry an earlier read returned.
C23_LaterReadContainsEarlier ==
    [][\A i \in TaskIds :
          task_logs'[i] # task_logs[i] =>
              /\ Len(task_logs'[i]) > Len(task_logs[i])
              /\ SubSeq(task_logs'[i], 1, Len(task_logs[i])) = task_logs[i]
              /\ \A limit \in (1..MaxLimit) \cup {DefaultLogLimit} :
                    Returned(GetTaskLogs(task_logs, i, limit))
                        \subseteq Returned(GetTaskLogs(task_logs', i, limit))]_vars

\* C23 amended: no operator updates or deletes an entry (each step that writes the log
\* of a task leaves its stored entries as a proper prefix of its entries afterwards, the
\* newest entry having the highest id), and a later
\* logs(id, limit) read contains every entry an earlier read with that limit returned
\* as long as the task has at most limit entries; a read returns the newest limit entries.
C23_LogAppendOnly ==
    [][\A i \in TaskIds :
          task_logs'[i] # task_logs[i] =>
              /\ Len(task_logs'[i]) > Len(task_logs[i])
              /\ SubSeq(task_logs'[i], 1, Len(task_logs[i])) = task_logs[i]
              /\ \A limit \in (1..MaxLimit) \cup {DefaultLogLimit} :
                    LET before == GetTaskLogs(task_logs, i, limit)
                        after == GetTaskLogs(task_logs', i, limit)
                    IN  /\ Len(after) = Min(Len(task_logs'[i]), limit)
                        /\ after[1].id = Len(task_logs'[i])
                        /\ Len(task_logs'[i]) <= limit
                              => Returned(before) \subseteq Returned(after)]_vars

\* C23 witness: a task with more entries than a small limit: the default read returns
\* all of them, the read with limit 1 only the newest
C23_Witness ==
    \E i \in DOMAIN tasks :
        /\ Len(task_logs[i]) > MaxLimit
        /\ Len(GetTaskLogs(task_logs, i, DefaultLogLimit)) = Len(task_logs[i])
        /\ Returned(GetTaskLogs(task_logs, i, 1)) =
              {[id |-> Len(task_logs[i]), entry |-> task_logs[i][Len(task_logs[i])]]}

\* C22: when the runner has succeeded, for every outcome of the upload CLIs and of the
\* mail CLI (nonzero exit or missing binary) the task ends COMPLETED, and the email is
\* still attempted after an upload failure when delivery.email is set.
C22_CliFailuresStillComplete ==
    [][(pc = "process" /\ pc' # "process" /\ ~calls'.processing.result.summary_raised) =>
          /\ tasks'[current_task_id].status = "COMPLETED"
          /\ (calls'.processing.delivery.set /\ calls'.processing.delivery.email)
                => calls'.processing.result.email_called]_vars

\* C22 witness: a task is COMPLETED after a processing where an upload failed, the email
\* was attempted and the mail CLI failed too
C22_Witness ==
    /\ calls.processing.task \in DOMAIN tasks
    /\ tasks[calls.processing.task].status = "COMPLETED"
    /\ calls.processing.result.upload_errors # {}
    /\ calls.processing.result.email_called
    /\ ~calls.processing.result.notification_sent

\* C24: the worker loop does not terminate because of a task error: after a runner
\* failure, a processor exception or an exception of a queue operation the worker goes
\* back to the top of the loop and to a further dequeue; the loop ends only at the top of
\* the loop after stop() has been called.
C24_LoopSurvivesTaskErrors ==
    [][/\ pc' = "stopped" => (pc \in {"poll", "stopped"} /\ shutdown_event)
       /\ (pc = "loop_error" /\ pc' # pc) => pc' = "poll"
       /\ (pc \in {"result", "process"} /\ pc' # pc)
             => pc' \in {"process", "poll", "loop_error"}]_vars

\* C24 witness: after mark_failed raised for a task, which is left RUNNING or PROCESSING,
\* the worker has dequeued another task
C24_Witness ==
    \E i, j \in DOMAIN tasks :
        /\ i # j
        /\ tasks[i].status \in {"RUNNING", "PROCESSING"}
        /\ current_task_id = j
        /\ tasks[j].status = "RUNNING"
        /\ ~shutdown_event

\* C25: an API cancel served for a task that is RUNNING when queue.cancel commits has
\* runner.cancel_task invoked and the live child signalled: in no interleaving of the
\* cancel route with the worker's dequeue and spawn is the task FAILED by the cancel while
\* its child runs un-signalled.
C25_CancelSignalsChild ==
    \A i \in DOMAIN tasks :
        (/\ i \in cancelled_running
         /\ tasks[i].status = "FAILED"
         /\ tasks[i].last_error = ErrCancelledByUser)
            => ~(child.state = "alive" /\ child.task = i)

\* C26: when stop() is invoked while current_task_id is set, the child of that task is
\* sent a termination signal: in no reachable state has stop() completed while the child
\* of the current task is alive, or becomes alive later, without a signal of the shutdown.
C26_StopSignalsCurrentChild ==
    (shutdown_event /\ current_task_id # NoTask)
        => ~(/\ child.state = "alive"
             /\ child.task = current_task_id
             /\ current_task_id \notin stop_signalled)

\* the fields of a task that are fixed at enqueue
FixedFields(t) ==
    [id |-> t.id, type |-> t.type, outputs_path |-> t.outputs_path,
     max_attempts |-> t.max_attempts, created_at |-> t.created_at,
     queued_at |-> t.queued_at]

\* C27: after enqueue no operator changes outputs_path, id, type, max_attempts,
\* created_at or queued_at of a task; a retried task is delivered again with the same
\* outputs_path.
C27_FixedFieldsNeverChange ==
    [][\A i \in DOMAIN tasks :
          /\ i \in DOMAIN tasks'
          /\ FixedFields(tasks'[i]) = FixedFields(tasks[i])
          /\ deliveries'[i] > deliveries[i]
                => tasks'[i].outputs_path = OutputsPath(i)]_vars

\* C27 witness: a task is delivered for the second time, after a failure and a retry
\* delay, beside a task of another type
C27_Witness ==
    \E i, j \in DOMAIN tasks :
        /\ deliveries[i] = 2
        /\ tasks[i].status = "RUNNING"
        /\ tasks[i].attempts = 2
        /\ tasks[i].outputs_path = OutputsPath(i)
        /\ tasks[j].type # tasks[i].type

\* C28: a submission with invalid inputs (an empty or whitespace-only title or
\* description, a title longer than 200 characters, a type outside research, analysis,
\* document, or an attachment whose extension is outside the whitelist) creates no task
\* and no log entry.
C28_InvalidSubmissionCreatesNothing ==
    [][(calls.submit.answered /\ ~calls'.submit.answered) =>
          LET sub == calls'.submit.input
          IN  (\/ sub.title.core = 0
               \/ sub.description.core = 0
               \/ sub.title.lead + sub.title.core + sub.title.trail > 200
               \/ sub.type \notin {"research", "analysis", "document"}
               \/ \E k \in DOMAIN sub.attachments.paths :
                     ExtensionOf(sub.attachments.paths[k]) \notin ALLOWED_ATTACHMENT_TYPES)
                 => /\ ~calls'.submit.accepted
                    /\ tasks' = tasks
                    /\ task_logs' = task_logs]_vars

\* C28 witness: after an accepted submission, a submission with a whitespace-only title
\* has been refused; the store holds the one task and its one log entry
C28_Witness ==
    /\ ~calls.submit.answered
    /\ ~calls.submit.accepted
    /\ calls.submit.input.title.core = 0
    /\ calls.submit.input.title.lead = 1
    /\ Len(tasks) = 1
    /\ Len(task_logs[1]) = 1

\* C29: the registry holds an entry for a task only while _run_claude is between the
\* spawn of the child and its return: after execute_task has returned, with any outcome,
\* the registry has no entry for the task, and with one worker it never holds more than
\* one entry.
C29_RegistryOnlyWhileRunning ==
    /\ Cardinality(active_processes) <= 1
    /\ active_processes # {}
          => /\ pc = "communicate"
             /\ active_processes = {current_task_id}
             /\ child.task = current_task_id
    /\ pc \in {"result", "process", "poll", "wait", "stopped"} => active_processes = {}

\* C29 witness: execute_task has returned the result of a cancellation that reached it
\* while the child was registered
C29_Witness ==
    /\ pc = "result"
    /\ result.error = ErrExecutionCancelled
    /\ child.task = current_task_id
    /\ child.state # "none"
    /\ active_processes = {}

\* C30: cancel_task(id) is idempotent and safe on an exited process: for a task with no
\* registry entry, or whose process has already exited, it raises no error and signals
\* nothing, and calling it twice leaves the registry and the process in the same state
\* as calling it once.
C30_CancelTaskIdempotent ==
    \A id \in TaskIds :
        LET once_child == CancelTaskChild(child, active_processes, id)
            once_registry == CancelTaskRegistry(active_processes, id)
        IN  /\ CancelTaskChild(once_child, once_registry, id) = once_child
            /\ CancelTaskRegistry(once_registry, id) = once_registry
            /\ (id \notin active_processes \/ child.state # "alive") => once_child = child
            /\ id \notin once_registry
            /\ once_registry \subseteq active_processes

\* C30 witness: the child of the current task has exited and is still registered, beside
\* a task that has no entry
C30_Witness ==
    /\ child.state = "exited"
    /\ child.task \in active_processes
    /\ \E id \in DOMAIN tasks : id \notin active_processes

\* C31: when the child has not exited within the timeout of the task's type, the runner
\* runs the cancellation protocol before it returns, and returns success = false,
\* partial = true with the error "Execution timed out after N seconds"; when execute_task
\* returns after a timeout the child has been signalled and is not left running.
C31_TimeoutCancelsChild ==
    [][(pc = "communicate" /\ child.state = "alive" /\ pc' = "result") =>
          /\ result' = [success |-> FALSE, partial |-> TRUE,
                        error |-> ErrTimedOut(get_task_timeout(
                                                 tasks[current_task_id].type))]
          /\ child'.state # "alive"
          /\ current_task_id \notin active_processes'
          /\ current_task_id' = current_task_id]_vars

\* C31 witness: execute_task has returned the timeout of an analysis task, 1200 seconds
C31_Witness ==
    /\ pc = "result"
    /\ current_task_id \in DOMAIN tasks
    /\ tasks[current_task_id].type = "analysis"
    /\ result = [success |-> FALSE, partial |-> TRUE,
                 error |-> "Execution timed out after 1200 seconds"]
    /\ child.state = "none"

\* C32: for every task run, the dequeue transaction that sets the task RUNNING is
\* committed before the child is spawned, no store transaction is open while the worker
\* waits on the child, and every later status change of the run is a transaction of its
\* own.
C32_NoSessionAcrossChild ==
    [][/\ pc' \in {"spawn", "communicate"} => ~calls'.session.open
       /\ (child'.state = "alive" /\ child.state # "alive")
             => /\ ~calls.session.open
                /\ tasks[child'.task].status = "RUNNING"
                /\ deliveries[child'.task] >= 1
       /\ \A i \in DOMAIN tasks :
             tasks'[i].status # tasks[i].status
                => /\ calls.session.open
                   /\ ~calls'.session.open]_vars

\* C32 witness: a run whose child was spawned and waited for has been marked
\* PROCESSING and then COMPLETED, each in a session that is closed again
C32_Witness ==
    \E i \in DOMAIN tasks :
        /\ tasks[i].status = "COMPLETED"
        /\ EventsOf(i) = <<"task_queued", "task_started", "task_processing",
                           "task_completed">>
        /\ calls.session = [open |-> FALSE, op |-> "mark_completed"]

\* C33: when several eligible tasks have the same created_at, dequeue returns the one
\* with the smallest id, so the choice among them is deterministic.
C33_TieBrokenById ==
    [][(pc = "poll" /\ pc' = "spawn") =>
          \A j \in DOMAIN tasks :
              (/\ Eligible(tasks[j], now)
               /\ tasks[j].created_at = tasks[current_task_id'].created_at)
                  => current_task_id' <= j]_vars

\* C34: a task's attempts never decreases; a step in which dequeue returns the task
\* adds exactly 1 to it, and every other step (mark_processing, mark_completed,
\* mark_failed, cancel included) leaves it as it is, so that attempts is the number
\* of times the task was returned by dequeue.
C34_AttemptsCountDequeues ==
    [][\A i \in DOMAIN tasks :
          /\ tasks'[i].attempts >= tasks[i].attempts
          /\ deliveries'[i] = deliveries[i] + 1
                => tasks'[i].attempts = tasks[i].attempts + 1
          /\ deliveries'[i] = deliveries[i]
                => tasks'[i].attempts = tasks[i].attempts
          /\ tasks'[i].attempts = deliveries'[i]]_vars

\* C34 witness: a task returned twice by dequeue, failed both times and dead, with
\* attempts = 2
C34_Witness ==
    \E i \in DOMAIN tasks :
        /\ EventsOf(i) = <<"task_queued", "task_started", "task_retry_scheduled",
                           "task_started", "task_dead">>
        /\ deliveries[i] = 2
        /\ tasks[i].attempts = 2
        /\ tasks[i].status = "DEAD"

\* C35: when an exception raised while the worker handles a dequeued task (in the
\* runner, in mark_processing, in the result processor or in mark_completed) reaches
\* the inner handler and its mark_failed(id, str(e), retry=True) commits, the task is
\* left RETRY if attempts < max_attempts and DEAD otherwise, with the matching log
\* entry, and in every case the worker leaves the task with _current_task_id reset.
C35_ExceptionMarksFailedWithRetry ==
    [][/\ \A i \in DOMAIN tasks :
             (/\ pc \in {"spawn", "result", "process"}
              /\ current_task_id = i
              /\ Len(task_logs'[i]) = Len(task_logs[i]) + 1
              /\ task_logs'[i][Len(task_logs'[i])].event
                    \in {"task_retry_scheduled", "task_dead", "task_failed"}
              /\ tasks'[i].last_error = ErrException)
                 => /\ tasks'[i].status =
                          IF tasks[i].attempts < tasks[i].max_attempts
                          THEN "RETRY" ELSE "DEAD"
                    /\ tasks'[i].attempts = tasks[i].attempts
                    /\ task_logs'[i][Len(task_logs'[i])].event =
                          IF tasks[i].attempts < tasks[i].max_attempts
                          THEN "task_retry_scheduled" ELSE "task_dead"
                    /\ current_task_id' = NoTask
       /\ (pc \in {"spawn", "result", "process"} /\ pc' \in {"poll", "loop_error"})
             => current_task_id' = NoTask]_vars

\* C35 witness: a task whose first run raised after mark_processing (in the processor
\* or in mark_completed) and was left RETRY, and whose second run raised before
\* mark_processing and was left DEAD
C35_Witness ==
    \E i \in DOMAIN tasks :
        /\ EventsOf(i) = <<"task_queued", "task_started", "task_processing",
                           "task_retry_scheduled", "task_started", "task_dead">>
        /\ tasks[i].status = "DEAD"
        /\ tasks[i].last_error = ErrException
        /\ tasks[i].attempts = tasks[i].max_attempts
        /\ current_task_id = NoTask

\* C36: every status change of a task (its creation as QUEUED included) is committed
\* in the same step as exactly one new log entry of that task, added after the entries
\* it already has, whose event names the transition: task_queued for QUEUED,
\* task_started for RUNNING, task_processing for PROCESSING, task_completed for
\* COMPLETED, task_retry_scheduled for RETRY, task_dead for DEAD, task_failed or
\* task_cancelled for FAILED. No step removes or reorders entries, so the entries of a
\* task in the order of their ids are in the order of its transitions.
C36_StatusChangeLogged ==
    [][LET Named(event) ==
               CASE event = "task_queued" -> "QUEUED"
                 [] event = "task_started" -> "RUNNING"
                 [] event = "task_processing" -> "PROCESSING"
                 [] event = "task_completed" -> "COMPLETED"
                 [] event = "task_retry_scheduled" -> "RETRY"
                 [] event = "task_dead" -> "DEAD"
                 [] event \in {"task_failed", "task_cancelled"} -> "FAILED"
                 [] OTHER -> "none"
       IN  \A i \in DOMAIN tasks' :
             /\ Len(task_logs'[i]) \in {Len(task_logs[i]), Len(task_logs[i]) + 1}
             /\ SubSeq(task_logs'[i], 1, Len(task_logs[i])) = task_logs[i]
             /\ (i \notin DOMAIN tasks \/ tasks'[i].status # tasks[i].status)
                   => /\ Len(task_logs'[i]) = Len(task_logs[i]) + 1
                      /\ Named(task_logs'[i][Len(task_logs'[i])].event)
                            = tasks'[i].status
             /\ Len(task_logs'[i]) >= 1
             /\ Named(task_logs'[i][Len(task_logs'[i])].event) = tasks'[i].status]_vars

\* C36 witness: a task queued, started, failed into a retry, started again, processed
\* and completed, with the six entries in that order
C36_Witness ==
    \E i \in DOMAIN tasks :
        /\ EventsOf(i) = <<"task_queued", "task_started", "task_retry_scheduled",
                           "task_started", "task_processing", "task_completed">>
        /\ tasks[i].status = "COMPLETED"
        /\ tasks[i].attempts = 2

\* C37: every log entry of a task carries the correlation id the task was enqueued
\* with.
C37_LogsCarryCorrelationId ==
    \A i \in DOMAIN tasks :
        \A k \in 1..Len(task_logs[i]) :
            task_logs[i][k].correlation_id = tasks[i].correlation_id

C39_RunningIsCurrentTask ==
    \A i \in DOMAIN tasks :
        tasks[i].status \in {"RUNNING", "PROCESSING"} => current_task_id = i

\* C40: once stop() has been called the worker starts no new child process and
\* performs no further dequeue: a task returned by a dequeue that stop() overtook is
\* not executed.
C40_NoSpawnAfterStop ==
    [][shutdown_event =>
          /\ (child.state # "alive" => child'.state # "alive")
          /\ deliveries' = deliveries]_vars

====
